---- MODULE Spec2Model ----
(***************************************************************************)
(* A model of tvfmt: the episode filename parser, the rename plan builder, *)
(* the orchestrator TvFormatter.run with rename_files, and CliConfig.set.  *)
(* Strings are sequences of one-character strings, so that parsing,        *)
(* formatting and path joining are computed character by character.        *)
(***************************************************************************)
EXTENDS Integers, Sequences, FiniteSets, TLC

VARIABLES
    filename,        \* parse_episode_file: its argument
    parsed,          \* parse_episode_file: its return value, or Unset before the call
    pc,              \* TvFormatter.run: the statement about to execute
    path_exists,     \* whether PATH exists and is a directory
    show,            \* --show, None when not given
    season,          \* --season as <<n>>, None when not given
    auto,            \* --auto
    user_confirm,    \* --confirm
    fs,              \* the files on disk, a set of paths
    fs0,             \* the files on disk when the run started
    tv_show,         \* run's local tv_show as <<TvShow>>, None before it is bound
    seasons,         \* the season list get_tv_season read from the API
    tv_season,       \* run's local tv_season as <<TvSeason>>, None before it is bound
    tv_episodes,     \* run's local tv_episodes
    files,           \* run's local files
    changes,         \* run's local changes, the rename plan
    prompted,        \* whether confirm_changes asked the user
    accepted,        \* the user's answer to confirm_changes
    pos,             \* rename_files: index of the plan entry the loop is at
    renamed,         \* rename_files: indices whose rename call returned, in call order
    out,             \* what the run printed
    exit_code,       \* the process's exit code as <<n>>, None while running
    raised,          \* the exception that ended the run, None if none
    passes,          \* how many times the plan builder has been applied
    parser,          \* CliConfig.parser: the value of each key in memory
    config_file,     \* the config file: the value of each key as written
    set_call,        \* the arguments of the last CliConfig.set, None before any
    set_result       \* what the last CliConfig.set returned or raised, "None" before any

parseVars == <<filename, parsed>>
runVars == <<pc, path_exists, show, season, auto, user_confirm, fs, fs0, tv_show,
             seasons, tv_season, tv_episodes, files, changes, prompted, accepted,
             pos, renamed, out, exit_code, raised, passes>>
configVars == <<parser, config_file, set_call, set_result>>
vars == <<filename, parsed, parser, config_file, set_call, set_result, pc, path_exists, show, season, auto, user_confirm, fs, fs0,
          tv_show, seasons, tv_season, tv_episodes, files, changes, prompted, accepted,
          pos, renamed, out, exit_code, raised, passes>>

\* ------------------------------------------------------------------ bounds
MaxChunks == 3
MaxFiles == 3
MaxPasses == 2

\* ----------------------------------------------------------------- strings
\* Python's None; an empty list [] is the same empty sequence.
None == <<>>

DigitChars == <<"0", "1", "2", "3", "4", "5", "6", "7", "8", "9">>

IsDigit(c) == \E n \in DOMAIN DigitChars : DigitChars[n] = c

DigitVal(c) == (CHOOSE n \in DOMAIN DigitChars : DigitChars[n] = c) - 1

\* int(s) of a string of decimal digits.
RECURSIVE ToInt(_)
ToInt(s) ==
    IF s = <<>> THEN 0
    ELSE 10 * ToInt(SubSeq(s, 1, Len(s) - 1)) + DigitVal(s[Len(s)])

\* What parsed holds before the call.
Unset == <<"unset">>

\* ------------------------------------------------------------ the parser
\* pattern = r"[Ss]\d{2}[Ee]\d{2}" matched at position i of s.
MatchAt(s, i) ==
    /\ i >= 1
    /\ i + 5 <= Len(s)
    /\ s[i] \in {"S", "s"}
    /\ IsDigit(s[i + 1])
    /\ IsDigit(s[i + 2])
    /\ s[i + 3] \in {"E", "e"}
    /\ IsDigit(s[i + 4])
    /\ IsDigit(s[i + 5])

\* re.findall(pattern, s): the non-overlapping matches, scanning from the left,
\* each scan resuming after the end of the previous match.
RECURSIVE FindAllFrom(_, _)
FindAllFrom(s, i) ==
    IF i + 5 > Len(s) THEN <<>>
    ELSE IF MatchAt(s, i) THEN <<SubSeq(s, i, i + 5)>> \o FindAllFrom(s, i + 6)
    ELSE FindAllFrom(s, i + 1)

findall(s) == FindAllFrom(s, 1)

\* The same function reading the last match instead of the first.
parse_episode_file_last(fname) ==
    LET match == findall(fname)
    IN  IF match # <<>>
        THEN <<ToInt(SubSeq(match[Len(match)], 2, 3)),
               ToInt(SubSeq(match[Len(match)], 5, 6))>>
        ELSE None

\* TvFormatter.parse_episode_file: match[0][1:3] and match[0][4:] as integers,
\* None (the implicit return) when nothing matches.
parse_episode_file(fname) ==
    LET match == findall(fname)
    IN  IF match # <<>>
        THEN <<ToInt(SubSeq(match[1], 2, 3)), ToInt(SubSeq(match[1], 5, 6))>>
        ELSE None

\* ------------------------------------------------------------ formatting
\* The characters of the model in code point order.
CharOrder ==
    <<" ", "%", "(", ")", ".", "/", "0", "1", "2", "3", "4", "5", "6", "7", "8", "9", ":",
      "A", "B", "C", "D", "E", "F", "G", "H", "I", "J", "K", "L", "M",
      "N", "O", "P", "Q", "R", "S", "T", "U", "V", "W", "X", "Y", "Z",
      "a", "b", "c", "d", "e", "f", "g", "h", "i", "j", "k", "l", "m",
      "n", "o", "p", "q", "r", "s", "t", "u", "v", "w", "x", "y", "z">>

Ord(c) == CHOOSE n \in DOMAIN CharOrder : CharOrder[n] = c

\* a < b for two strings (code point order, a proper prefix first).
RECURSIVE StrLess(_, _)
StrLess(a, b) ==
    IF b = <<>> THEN FALSE
    ELSE IF a = <<>> THEN TRUE
    ELSE IF a[1] # b[1] THEN Ord(a[1]) < Ord(b[1])
    ELSE StrLess(Tail(a), Tail(b))

\* s.replace(c, '')
StrRemove(s, c) == SelectSeq(s, LAMBDA x : x # c)

\* str(n) for n >= 0.
RECURSIVE IntStr(_)
IntStr(n) ==
    IF n < 10 THEN <<DigitChars[n + 1]>>
    ELSE IntStr(n \div 10) \o <<DigitChars[(n % 10) + 1]>>

\* f"{n:02}": zero-padded to a width of two, wider when n needs it.
Fmt02(n) == IF Len(IntStr(n)) < 2 THEN <<"0">> \o IntStr(n) ELSE IntStr(n)

\* str() of what find_by_attr returned: TvEpisode.__str__ is its name.
PyStr(found) == IF found = None THEN <<"N", "o", "n", "e">> ELSE found[1].name

\* TvFormatter.format_filename
format_filename(show_name, season_num, episode_num, episode_name, ext) ==
    StrRemove(show_name, ":") \o <<" ", "S">> \o Fmt02(season_num) \o <<"E">>
        \o Fmt02(episode_num) \o <<" ">> \o PyStr(episode_name) \o ext

\* utils.find_by_attr(lst, "number", value): the first item whose number is
\* value as <<item>>, None (the implicit return) when there is none.
RECURSIVE find_by_attr(_, _)
find_by_attr(lst, value) ==
    IF lst = <<>> THEN None
    ELSE IF lst[1].number = value THEN <<lst[1]>>
    ELSE find_by_attr(Tail(lst), value)

\* ----------------------------------------------------------------- paths
\* A path is the sequence of its parts; an absolute path starts with the part "/".
Root == <<"/">>

PathName(p) == IF p = <<>> \/ p = <<Root>> THEN <<>> ELSE p[Len(p)]

PathParent(p) == IF Len(p) <= 1 THEN p ELSE SubSeq(p, 1, Len(p) - 1)

\* Path.suffix: name[i:] for i = name.rfind('.') when 0 < i < len(name) - 1.
PathSuffix(p) ==
    LET name == PathName(p)
        dots == {k \in 1..Len(name) : name[k] = "."}
    IN  IF dots = {} THEN <<>>
        ELSE LET k == CHOOSE d \in dots : \A e \in dots : e <= d
             IN  IF 1 < k /\ k < Len(name) THEN SubSeq(name, k, Len(name)) ELSE <<>>

\* The parts of a string split at "/", empty and "." parts dropped.
RECURSIVE SplitParts(_, _)
SplitParts(s, cur) ==
    LET done == IF cur = <<>> \/ cur = <<".">> THEN <<>> ELSE <<cur>>
    IN  IF s = <<>> THEN done
        ELSE IF s[1] = "/" THEN done \o SplitParts(Tail(s), <<>>)
        ELSE SplitParts(Tail(s), Append(cur, s[1]))

\* parent / s: s is parsed into parts; an absolute s replaces parent.
PathJoin(parent, s) ==
    IF s # <<>> /\ s[1] = "/" THEN <<Root>> \o SplitParts(s, <<>>)
    ELSE parent \o SplitParts(s, <<>>)

\* p < q for two paths: their parts compared in order.
RECURSIVE PathLess(_, _)
PathLess(p, q) ==
    IF q = <<>> THEN FALSE
    ELSE IF p = <<>> THEN TRUE
    ELSE IF p[1] # q[1] THEN StrLess(p[1], q[1])
    ELSE PathLess(Tail(p), Tail(q))

\* list.sort() of a set of paths.
RECURSIVE SortPaths(_)
SortPaths(ps) ==
    IF ps = {} THEN <<>>
    ELSE LET least == CHOOSE p \in ps : \A q \in ps \ {p} : PathLess(p, q)
         IN  <<least>> \o SortPaths(ps \ {least})

\* utils.get_files(path): the files directly in path, dotfiles ignored, sorted.
get_files(disk, path) ==
    SortPaths({f \in disk : PathParent(f) = path /\ Len(f) > Len(path)
                            /\ PathName(f)[1] # "."})

\* PathChange(old, new)
PathChange(old, new) == [old |-> old, new |-> new, is_file |-> TRUE]

\* ------------------------------------------------- the rename plan builder
\* The loop with changes.insert(0, ...) in place of changes.append(...).
RECURSIVE file_changes_prepend(_, _, _)
file_changes_prepend(fls, show_name, episodes) ==
    IF fls = <<>> THEN <<>>
    ELSE LET f == fls[1]
             filename_info == parse_episode_file(PathName(f))
             rest == file_changes_prepend(Tail(fls), show_name, episodes)
         IN  IF filename_info # None
             THEN rest \o <<PathChange(f, PathJoin(PathParent(f),
                     format_filename(show_name, filename_info[1], filename_info[2],
                         find_by_attr(episodes, filename_info[2]), PathSuffix(f))))>>
             ELSE rest

\* TvFormatter.get_file_changes without its decorator: one PathChange per
\* file that parses, appended in the order of files.
RECURSIVE file_changes(_, _, _)
file_changes(fls, show_name, episodes) ==
    IF fls = <<>> THEN <<>>
    ELSE LET f == fls[1]
             filename_info == parse_episode_file(PathName(f))
             rest == file_changes(Tail(fls), show_name, episodes)
         IN  IF filename_info # None
             THEN <<PathChange(f, PathJoin(PathParent(f),
                     format_filename(show_name, filename_info[1], filename_info[2],
                         find_by_attr(episodes, filename_info[2]), PathSuffix(f))))>>
                  \o rest
             ELSE rest

\* exit_on_null's test: result in (None, [])
IsNull(result) == result = None \/ result = <<>>

\* ------------------------------------------------------- the metadata API
TvShow(name, id) == [name |-> name, year |-> <<"2", "0", "2", "0">>, id |-> id]

TvSeason(number) ==
    [name |-> <<"S", "e", "a", "s", "o", "n", " ">> \o IntStr(number),
     episode_count |-> 2, number |-> number, id |-> 100 + number]

TvEpisode(name, number) == [name |-> name, number |-> number, id |-> 200 + number]

\* search_tv_shows' slice data[:limit], limit being 5 at its one call site.
Limit == 5

\* TraktAPI.search_tv_shows: nothing for an empty query, else the first
\* limit results.
search_tv_shows(query, data, limit) ==
    IF query = None THEN <<>>
    ELSE SubSeq(data, 1, IF Len(data) < limit THEN Len(data) ELSE limit)

\* TraktAPI.get_show_seasons: the seasons of the response with number > 0.
get_show_seasons(data) == SelectSeq(data, LAMBDA s : s.number > 0)

\* What the service answers, drawn from small sets.
ShowW == TvShow(<<"W">>, 1)
ShowV == TvShow(<<"V", ":", "X">>, 2)
ApiShowData == {<<>>, <<ShowW>>, <<ShowV, ShowW>>}

ApiSeasonData == {<<>>, <<TvSeason(0), TvSeason(1), TvSeason(2)>>, <<TvSeason(0), TvSeason(1)>>}

EpisodesPlain == <<TvEpisode(<<"P">>, 1), TvEpisode(<<"Q">>, 2)>>
EpisodesTwice == <<TvEpisode(<<"P">>, 1), TvEpisode(<<"R">>, 1)>>
EpisodesOther == <<TvEpisode(<<"Q">>, 2)>>
ApiEpisodeData == {<<>>, EpisodesPlain, EpisodesOther}

\* ------------------------------------------------------------- the disk
Dir == <<<<"d">>>>

FileNames ==
    { <<"a", "S", "0", "1", "E", "0", "1", ".", "m">>,
      <<"b", "s", "0", "1", "e", "0", "1", ".", "m">>,
      <<"c", "S", "0", "2", "E", "0", "2", ".", "m">>,
      <<"S", "0", "1", "E", "0", "2">>,
      <<"n", ".", "t">>,
      <<".", "S", "0", "1", "E", "0", "1">> }

Disks == {{Append(Dir, n) : n \in names} :
            names \in {ns \in SUBSET FileNames : Cardinality(ns) <= MaxFiles}}

\* ------------------------------------------------------ TvFormatter.run
\* error(message): the panel, then typer.Exit(1).
Error ==
    /\ out' = Append(out, "Error")
    /\ exit_code' = <<1>>
    /\ pc' = "exit"

\* An exception nothing catches: a traceback and exit status 1, no panel.
Raise(exc) ==
    /\ raised' = <<exc>>
    /\ exit_code' = <<1>>
    /\ pc' = "exit"

\* run's first statement: the check of PATH.
CheckPath ==
    /\ pc = "check_path"
    /\ IF path_exists THEN pc' = "get_tv_show" /\ UNCHANGED <<out, exit_code>>
       ELSE Error
    /\ UNCHANGED <<path_exists, show, season, auto, user_confirm, fs, fs0, tv_show,
                   seasons, tv_season, tv_episodes, files, changes, prompted,
                   accepted, pos, renamed, raised,
                   passes>>
    /\ UNCHANGED <<parseVars, configVars>>

\* tv_show = self.get_tv_show(show, auto), with its exit_on_null decorator.
\* typed is the answer to the "Search Tv Shows" prompt, data the service's
\* answer and picked the answer of the "Tv Show" selector.
GetTvShow ==
    /\ pc = "get_tv_show"
    /\ \E typed \in {None, <<"q">>}, data \in ApiShowData :
        LET show_name == IF show = None THEN typed ELSE show
            tv_shows == search_tv_shows(show_name, data, Limit)
        IN  \E picked \in {None} \cup {<<s>> : s \in {tv_shows[k] : k \in DOMAIN tv_shows}} :
              LET result == IF tv_shows = <<>> THEN None
                            ELSE IF auto THEN <<tv_shows[1]>>
                            ELSE picked
              IN  IF IsNull(result)
                  THEN Error /\ UNCHANGED tv_show
                  ELSE /\ tv_show' = result
                       /\ pc' = "get_tv_season"
                       /\ UNCHANGED <<out, exit_code>>
    /\ UNCHANGED <<path_exists, show, season, auto, user_confirm, fs, fs0,
                   seasons, tv_season, tv_episodes, files, changes, prompted,
                   accepted, pos, renamed, raised,
                   passes>>
    /\ UNCHANGED <<parseVars, configVars>>

\* tv_season = self.get_tv_season(tv_show.id, season), with its decorator.
\* With a season number that is a valid index the season at that index is
\* returned, otherwise the "Season" selector is asked. Asked to choose from
\* an empty list, questionary either refuses with a ValueError or returns
\* None, depending on its version.
GetTvSeason ==
    /\ pc = "get_tv_season"
    /\ \E data \in ApiSeasonData :
        LET ss == get_show_seasons(data)
        IN  /\ seasons' = ss
            /\ IF season # None /\ season[1] # 0 /\ 0 < season[1] /\ season[1] <= Len(ss)
               THEN /\ tv_season' = <<ss[season[1]]>>
                    /\ pc' = "get_tv_episodes"
                    /\ UNCHANGED <<out, exit_code, raised>>
               ELSE IF ss = <<>>
               THEN \/ Raise("ValueError") /\ UNCHANGED <<tv_season, out>>
                    \/ Error /\ UNCHANGED <<tv_season, raised>>
               ELSE \E picked \in {None} \cup {<<ss[k]>> : k \in DOMAIN ss} :
                      IF IsNull(picked)
                      THEN Error /\ UNCHANGED <<tv_season, raised>>
                      ELSE /\ tv_season' = picked
                           /\ pc' = "get_tv_episodes"
                           /\ UNCHANGED <<out, exit_code, raised>>
    /\ UNCHANGED <<path_exists, show, season, auto, user_confirm, fs, fs0, tv_show,
                   tv_episodes, files, changes, prompted, accepted, pos, renamed,
                   passes>>
    /\ UNCHANGED <<parseVars, configVars>>

\* get_tv_episodes without its exit_on_null decorator: an empty list is
\* returned to run like any other.
GetTvEpisodes_undecorated ==
    /\ pc = "get_tv_episodes"
    /\ \E data \in ApiEpisodeData :
        /\ tv_episodes' = data
        /\ pc' = "get_files"
        /\ UNCHANGED <<out, exit_code>>
    /\ UNCHANGED <<path_exists, show, season, auto, user_confirm, fs, fs0, tv_show,
                   seasons, tv_season, files, changes, prompted, accepted, pos,
                   renamed, raised, passes>>
    /\ UNCHANGED <<parseVars, configVars>>

\* tv_episodes = self.get_tv_episodes(tv_show.id, tv_season.number), with
\* its decorator; data is the service's answer for that season.
GetTvEpisodes ==
    /\ pc = "get_tv_episodes"
    /\ \E data \in ApiEpisodeData :
        IF IsNull(data)
        THEN Error /\ UNCHANGED tv_episodes
        ELSE /\ tv_episodes' = data
             /\ pc' = "get_files"
             /\ UNCHANGED <<out, exit_code>>
    /\ UNCHANGED <<path_exists, show, season, auto, user_confirm, fs, fs0, tv_show,
                   seasons, tv_season, files, changes, prompted, accepted, pos,
                   renamed, raised,
                   passes>>
    /\ UNCHANGED <<parseVars, configVars>>

\* files = utils.get_files(path)
GetFiles ==
    /\ pc = "get_files"
    /\ files' = get_files(fs, Dir)
    /\ pc' = "get_file_changes"
    /\ UNCHANGED <<path_exists, show, season, auto, user_confirm, fs, fs0, tv_show,
                   seasons, tv_season, tv_episodes, changes, prompted, accepted, pos,
                   renamed, out, exit_code, raised,
                   passes>>
    /\ UNCHANGED <<parseVars, configVars>>

\* TvFormatter.get_file_changes with its exit_on_null decorator, bound to
\* run's local changes.
get_file_changes(fls, show_name, episodes) ==
    LET result == file_changes(fls, show_name, episodes)
    IN  IF IsNull(result)
        THEN Error /\ UNCHANGED <<changes, fs>>
        ELSE /\ changes' = result
             /\ pc' = "confirm"
             /\ UNCHANGED <<out, exit_code, fs>>

\* changes = self.get_file_changes(files, tv_show.name, tv_episodes)
GetFileChanges ==
    /\ pc = "get_file_changes"
    /\ passes' = passes + 1
    /\ get_file_changes(files, tv_show[1].name, tv_episodes)
    /\ UNCHANGED <<path_exists, show, season, auto, user_confirm, fs0, tv_show,
                   seasons, tv_season, tv_episodes, files, prompted, accepted, pos,
                   renamed, raised>>
    /\ UNCHANGED <<parseVars, configVars>>

\* if user_confirm: if self.confirm_changes(changes, path): ...
\* confirm_changes prints the plan and asks "Commit changes"; without
\* user_confirm the whole if statement is skipped.
ConfirmChanges ==
    /\ pc = "confirm"
    /\ IF user_confirm
       THEN \E answer \in BOOLEAN :
              /\ prompted' = TRUE
              /\ accepted' = answer
              /\ out' = Append(out, "Changes")
              /\ pc' = IF answer THEN "rename_files" ELSE "print_done"
       ELSE /\ pc' = "print_done"
            /\ UNCHANGED <<prompted, accepted, out>>
    /\ UNCHANGED <<path_exists, show, season, auto, user_confirm, fs, fs0, tv_show,
                   seasons, tv_season, tv_episodes, files, changes, pos, renamed,
                   exit_code, raised, passes>>
    /\ UNCHANGED <<parseVars, configVars>>

\* A loop that catches the failure of one rename and goes on to the next.
rename_failed_continue(exc) ==
    /\ pos' = pos + 1
    /\ UNCHANGED <<fs, renamed, raised, exit_code, pc>>

\* old_file.rename(new_file) raised: rename_files catches nothing, so the
\* exception leaves the loop and the run.
rename_failed(exc) ==
    /\ Raise(exc)
    /\ UNCHANGED <<fs, renamed, pos>>

\* utils.rename_files: one pass of its loop. The rename fails when the old
\* file is gone or the new path's directory does not exist, and may fail for
\* any reason of the operating system's; otherwise the file moves, replacing
\* a file already at the new path.
RenameFiles ==
    /\ pc = "rename_files"
    /\ IF pos > Len(changes)
       THEN /\ pc' = "print_done"
            /\ UNCHANGED <<fs, renamed, pos, raised, exit_code>>
       ELSE LET old_file == changes[pos].old
                new_file == changes[pos].new
            IN  IF old_file \notin fs \/ PathParent(new_file) # Dir
                THEN rename_failed("FileNotFoundError")
                ELSE \/ rename_failed("OSError")
                     \/ /\ fs' = (fs \ {old_file}) \cup {new_file}
                        /\ renamed' = Append(renamed, pos)
                        /\ pos' = pos + 1
                        /\ UNCHANGED <<raised, exit_code, pc>>
    /\ UNCHANGED <<path_exists, show, season, auto, user_confirm, fs0, tv_show,
                   seasons, tv_season, tv_episodes, files, changes, prompted,
                   accepted, out, passes>>
    /\ UNCHANGED <<parseVars, configVars>>

\* console.print("Done!"), and run returns.
PrintDone ==
    /\ pc = "print_done"
    /\ out' = Append(out, "Done!")
    /\ exit_code' = <<0>>
    /\ pc' = "exit"
    /\ UNCHANGED <<path_exists, show, season, auto, user_confirm, fs, fs0, tv_show,
                   seasons, tv_season, tv_episodes, files, changes, prompted,
                   accepted, pos, renamed, raised, passes>>
    /\ UNCHANGED <<parseVars, configVars>>

\* The plan builder applied once more, to the files under the names the plan
\* gave them.
GetFileChangesAgain ==
    /\ pc = "confirm"
    /\ passes < MaxPasses
    /\ passes' = passes + 1
    /\ files' = [k \in DOMAIN changes |-> changes[k].new]
    /\ get_file_changes(files', tv_show[1].name, tv_episodes)
    /\ UNCHANGED <<path_exists, show, season, auto, user_confirm, fs0, tv_show,
                   seasons, tv_season, tv_episodes, prompted, accepted, pos,
                   renamed, raised>>
    /\ UNCHANGED <<parseVars, configVars>>

\* ------------------------------------------------------------- CliConfig
\* c.lower() for one character.
LowerChar(c) ==
    IF Ord("A") <= Ord(c) /\ Ord(c) <= Ord("Z")
    THEN CharOrder[Ord(c) + (Ord("a") - Ord("A"))]
    ELSE c

\* value.lower()
StrLower(s) == [k \in DOMAIN s |-> LowerChar(s[k])]

\* A value as ConfigParser reads it back from the file: surrounding blanks
\* are not part of it.
RECURSIVE StrStrip(_)
StrStrip(s) ==
    IF s = <<>> THEN s
    ELSE IF s[1] = " " THEN StrStrip(Tail(s))
    ELSE IF s[Len(s)] = " " THEN StrStrip(SubSeq(s, 1, Len(s) - 1))
    ELSE s

\* value.replace('%%', '')
RECURSIVE RemovePairs(_)
RemovePairs(s) ==
    IF Len(s) < 2 THEN s
    ELSE IF s[1] = "%" /\ s[2] = "%" THEN RemovePairs(SubSeq(s, 3, Len(s)))
    ELSE <<s[1]>> \o RemovePairs(Tail(s))

\* The end of a reference %(name)s that starts at the head of s, 0 if none
\* starts there: the regular expression %\(([^)]+)\)s.
KeyEnd(s) ==
    IF Len(s) < 5 \/ s[1] # "%" \/ s[2] # "(" \/ s[3] = ")" THEN 0
    ELSE LET closes == {k \in 4..Len(s) : s[k] = ")"}
         IN  IF closes = {} THEN 0
             ELSE LET k == CHOOSE c \in closes : \A d \in closes : c <= d
                  IN  IF k < Len(s) /\ s[k + 1] = "s" THEN k + 1 ELSE 0

\* _KEYCRE.sub('', value)
RECURSIVE RemoveKeys(_)
RemoveKeys(s) ==
    IF s = <<>> THEN s
    ELSE IF KeyEnd(s) > 0 THEN RemoveKeys(SubSeq(s, KeyEnd(s) + 1, Len(s)))
    ELSE <<s[1]>> \o RemoveKeys(Tail(s))

\* BasicInterpolation.before_set, which ConfigParser.set calls: a '%' left
\* after '%%' and the references %(name)s are taken out is a ValueError.
InterpolationOk(value) ==
    \A k \in DOMAIN RemoveKeys(RemovePairs(value)) : RemoveKeys(RemovePairs(value))[k] # "%"

\* CliConfigKey
CliConfigKey == {"trakt_api_key", "auto", "confirm"}

\* The values `config --set` is given.
SetValues ==
    { <<"t", "r", "u", "e">>,
      <<"T", "r", "u", "e">>,
      <<"F", "A", "L", "S", "E">>,
      <<"y", "e", "s">>,
      <<"t", "r", "u">>,
      <<" ", "t", "r", "u", "e">>,
      <<"1">>,
      <<"k">>,
      <<"5", "%">>,
      <<"%", "(", "k", ")", "s">>,
      <<>> }

\* CliConfig._setup: the file it writes when there is none.
DefaultConfig ==
    [k \in CliConfigKey |->
        IF k = "auto" THEN <<"F", "a", "l", "s", "e">>
        ELSE IF k = "confirm" THEN <<"T", "r", "u", "e">>
        ELSE <<>>]

\* CliConfig.set: key in [CliConfigKey.AUTO, CliConfigKey.CONFIRM]
must_be_boolean(key) == key \in {"auto", "confirm"}

\* CliConfig.set(key, value): set_result is what it returned, or the
\* exception self.parser.set raised.
Set(key, value) ==
    /\ set_call' = <<key, value>>
    /\ IF must_be_boolean(key)
          /\ StrLower(value) \notin {<<"t", "r", "u", "e">>, <<"f", "a", "l", "s", "e">>}
       THEN /\ set_result' = "False"
            /\ UNCHANGED <<parser, config_file>>
       ELSE IF ~InterpolationOk(value)
       THEN /\ set_result' = "ValueError"
            /\ UNCHANGED <<parser, config_file>>
       ELSE /\ parser' = [parser EXCEPT ![key] = value]
            /\ config_file' = parser'
            /\ set_result' = "True"

\* `tvfmt config --set KEY VALUE`
ConfigSet ==
    /\ \E key \in CliConfigKey, value \in SetValues : Set(key, value)
    /\ UNCHANGED <<parseVars, runVars>>

\* A new process: CliConfig.__init__ reads the file into a fresh parser.
ConfigLoad ==
    /\ parser' = [k \in CliConfigKey |-> StrStrip(config_file[k])]
    /\ set_call' = None
    /\ set_result' = "None"
    /\ UNCHANGED config_file
    /\ UNCHANGED <<parseVars, runVars>>

ConfigIdle ==
    /\ parser = DefaultConfig
    /\ config_file = DefaultConfig
    /\ set_call = None
    /\ set_result = "None"

\* ---------------------------------------------------------- specifications
ParseIdle == filename = <<>> /\ parsed = Unset

RunLocalsInit ==
    /\ fs0 = fs
    /\ seasons = <<>>
    /\ files = <<>>
    /\ changes = <<>>
    /\ prompted = FALSE
    /\ accepted = FALSE
    /\ pos = 1
    /\ renamed = <<>>
    /\ out = <<>>
    /\ exit_code = None
    /\ raised = None
    /\ passes = 0

RunIdle ==
    /\ pc = "idle"
    /\ path_exists = TRUE
    /\ show = None
    /\ season = None
    /\ auto = FALSE
    /\ user_confirm = FALSE
    /\ fs = {}
    /\ tv_show = None
    /\ tv_season = None
    /\ tv_episodes = <<>>
    /\ RunLocalsInit

\* The command line of `run` and the disk it finds.
Init ==
    /\ ParseIdle
    /\ ConfigIdle
    /\ pc = "check_path"
    /\ path_exists \in BOOLEAN
    /\ show \in {None, <<"q">>}
    /\ season \in {None, <<0>>, <<1>>, <<3>>}
    /\ auto \in BOOLEAN
    /\ user_confirm \in BOOLEAN
    /\ fs \in Disks
    /\ tv_show = None
    /\ tv_season = None
    /\ tv_episodes = <<>>
    /\ RunLocalsInit

Next ==
    \/ CheckPath
    \/ GetTvShow
    \/ GetTvSeason
    \/ GetTvEpisodes
    \/ GetFiles
    \/ GetFileChanges
    \/ ConfirmChanges
    \/ RenameFiles
    \/ PrintDone

Spec == Init /\ [][Next]_vars

\* The plan builder's inputs: shows and episodes whose names hold a colon, a
\* slash, a dot or the pattern itself.
PlanShows ==
    { TvShow(<<"W">>, 1),
      TvShow(<<"V", ":", "X">>, 2),
      TvShow(<<"F", "/", "Z">>, 3),
      TvShow(<<"S", "0", "1", ":", "E", "0", "2">>, 4),
      TvShow(<<"M", ".", "R">>, 5) }

EpisodesMarks == <<TvEpisode(<<"P", ".", "2">>, 1), TvEpisode(<<"Q", "/", "R">>, 2)>>

PlanEpisodes == {EpisodesPlain, EpisodesTwice, EpisodesOther, EpisodesMarks}

InitPlan ==
    /\ ParseIdle
    /\ ConfigIdle
    /\ pc = "get_files"
    /\ path_exists = TRUE
    /\ show = None
    /\ season = None
    /\ auto = FALSE
    /\ user_confirm = FALSE
    /\ fs \in Disks
    /\ tv_show \in {<<s>> : s \in PlanShows}
    /\ tv_season = <<TvSeason(1)>>
    /\ tv_episodes \in PlanEpisodes
    /\ RunLocalsInit

NextPlan ==
    \/ GetFiles
    \/ GetFileChanges
    \/ GetFileChangesAgain

SpecPlan == InitPlan /\ [][NextPlan]_vars

\* CliConfig after construction on a machine without a config file.
InitConfig ==
    /\ ParseIdle
    /\ RunIdle
    /\ ConfigIdle

NextConfig ==
    \/ ConfigSet
    \/ ConfigLoad

SpecConfig == InitConfig /\ [][NextConfig]_vars

\* ------------------------------------------------- specification: parser
\* The pieces filenames are put together from: patterns in both cases, near
\* misses (one digit, three digits, a missing letter) and separators.
Chunks ==
    { <<"S", "0", "1", "E", "0", "5">>,
      <<"s", "1", "2", "e", "3", "4">>,
      <<"S", "0", "7", "e", "0", "0">>,
      <<"S", "1", "E", "0", "2">>,
      <<"S", "0", "1", "E", "2">>,
      <<"S", "0">>,
      <<"1", "E", "0", "9">>,
      <<"x">>,
      <<".", "m">> }

RECURSIVE Concats(_)
Concats(n) ==
    IF n = 0 THEN {<<>>}
    ELSE LET shorter == Concats(n - 1)
         IN  shorter \cup {s \o c : s \in shorter, c \in Chunks}

InitParse ==
    /\ filename \in Concats(MaxChunks)
    /\ parsed = Unset
    /\ RunIdle
    /\ ConfigIdle

ParseEpisodeFile ==
    /\ parsed = Unset
    /\ parsed' = parse_episode_file(filename)
    /\ UNCHANGED filename
    /\ UNCHANGED <<runVars, configVars>>

NextParse == ParseEpisodeFile

SpecParse == InitParse /\ [][NextParse]_vars

MatchPositions(s) == {i \in 1..Len(s) : MatchAt(s, i)}

FirstMatch(s) == CHOOSE i \in MatchPositions(s) : \A j \in MatchPositions(s) : i <= j

\* C1: parse_episode_file returns the season and episode of the leftmost
\* substring matching [Ss]dd[Ee]dd as plain integers, and None exactly when
\* the filename holds no such substring; later occurrences do not matter.
C1_FirstMatchParsed ==
    parsed # Unset =>
        IF MatchPositions(filename) = {}
        THEN parsed = None
        ELSE LET i == FirstMatch(filename)
             IN  parsed = <<10 * DigitVal(filename[i + 1]) + DigitVal(filename[i + 2]),
                            10 * DigitVal(filename[i + 4]) + DigitVal(filename[i + 5])>>

\* A parsed filename with two occurrences of the pattern that differ.
C1_Witness ==
    /\ parsed # Unset
    /\ Cardinality(MatchPositions(filename)) >= 2
    /\ parsed # parse_episode_file_last(filename)

\* ----------------------------------------------------------------- claims
Range(s) == {s[k] : k \in DOMAIN s}

Parses(f) == MatchPositions(PathName(f)) # {}

\* The season and episode numbers at the leftmost pattern of a file's name.
SeasonOf(f) ==
    LET n == PathName(f)
        m == FirstMatch(n)
    IN  10 * DigitVal(n[m + 1]) + DigitVal(n[m + 2])

EpisodeOf(f) ==
    LET n == PathName(f)
        m == FirstMatch(n)
    IN  10 * DigitVal(n[m + 4]) + DigitVal(n[m + 5])

TwoDigits(n) == <<DigitChars[(n \div 10) + 1], DigitChars[(n % 10) + 1]>>

\* C2: the plan get_file_changes returns holds exactly one entry per file
\* whose name parses and none for the others, the entries' old paths in the
\* order of the input list, and building it renames no file; when no file
\* parses no plan is returned.
C2_PlanFollowsFiles ==
    /\ pc = "confirm" =>
        /\ changes # <<>>
        /\ [k \in DOMAIN changes |-> changes[k].old] = SelectSeq(files, Parses)
        /\ fs = fs0
    /\ (pc = "exit" /\ tv_episodes # <<>> /\ changes = <<>>) =>
        /\ SelectSeq(files, Parses) = <<>>
        /\ fs = fs0

\* A plan of two entries built from three files, one of which does not parse.
C2_Witness ==
    /\ pc = "confirm"
    /\ Len(changes) = 2
    /\ Len(files) = 3

\* C3: for a parsed file whose episode number is the number of some Episode,
\* the new path is in the old path's directory and its name is the show name
\* without ':', " S", the season in two digits, "E", the episode in two
\* digits, " ", the name of the first Episode with that number, and the
\* file's extension.
C3_NewNameFormat ==
    (pc = "confirm" /\ passes = 1) =>
        \A k \in DOMAIN changes :
            LET f == changes[k].old
                hits == {j \in DOMAIN tv_episodes : tv_episodes[j].number = EpisodeOf(f)}
            IN  hits # {} =>
                  LET first == CHOOSE j \in hits : \A h \in hits : j <= h
                  IN  changes[k].new =
                        Append(PathParent(f),
                            StrRemove(tv_show[1].name, ":") \o <<" ", "S">>
                            \o TwoDigits(SeasonOf(f)) \o <<"E">>
                            \o TwoDigits(EpisodeOf(f)) \o <<" ">>
                            \o tv_episodes[first].name \o PathSuffix(f))

\* C4: a run that builds a non-empty plan applies it, without prompting when
\* confirmation is disabled and after the user accepts when it is enabled;
\* only a run where the user was prompted and declined ends with nothing
\* renamed.
C4_PlanApplied ==
    (pc = "exit" /\ changes # <<>> /\ raised = None) =>
        /\ ~user_confirm => (~prompted /\ Len(renamed) = Len(changes))
        /\ (prompted /\ accepted) => Len(renamed) = Len(changes)
        /\ renamed = <<>> => (prompted /\ ~accepted)

\* The season number given on the command line is no index into the season
\* list get_tv_season read.
InvalidSeason ==
    /\ tv_show # None
    /\ pc # "get_tv_season"
    /\ season # None
    /\ ~(1 <= season[1] /\ season[1] <= Len(seasons))

\* A lookup returned nothing: run's local is still unbound or empty.
LookupNull ==
    \/ tv_show = None
    \/ tv_season = None
    \/ tv_episodes = <<>>
    \/ changes = <<>>

C5_SelectorFallback ==
    /\ pc = "exit"
    /\ InvalidSeason
    /\ season # None /\ season[1] > Len(seasons)
    /\ "Done!" \in Range(out)

IsBoolean(v) ==
    StrLower(v) \in {<<"t", "r", "u", "e">>, <<"f", "a", "l", "s", "e">>}

C6_Stored == IsBoolean(parser["auto"]) /\ IsBoolean(parser["confirm"])

C6_Step ==
    set_call' # None =>
        LET key == set_call'[1]
            value == set_call'[2]
        IN  IF key \in {"auto", "confirm"} /\ ~IsBoolean(value)
            THEN /\ set_result' = "False"
                 /\ parser' = parser
                 /\ config_file' = config_file
            ELSE /\ set_result' = "True"
                 /\ parser' = [parser EXCEPT ![key] = value]
                 /\ config_file' = parser'

\* C6: CliConfig.set with key auto or confirm and a value that is not "true"
\* or "false" in any case returns False and changes neither the parser nor the
\* file; with any other key and value it stores the value, writes the file and
\* returns True; the stored auto and confirm are always boolean strings.
C6_SetRejectsNonBoolean == [][C6_Step]_vars /\ []C6_Stored

\* C7: the plan builder applied to files that carry the names a previous plan
\* gave them proposes, for each, its current name.
C7_ReplanKeepsNames ==
    (pc = "confirm" /\ passes >= 2) =>
        \A k \in DOMAIN changes : PathName(changes[k].new) = PathName(changes[k].old)

\* C8: rename_files renames in plan order, one entry at a time; a failing
\* rename ends the loop, the entries before it stay renamed and none after it
\* is attempted, so the renamed entries are always a prefix of the plan.
C8_State ==
    /\ renamed = [k \in 1..Len(renamed) |-> k]
    /\ Len(renamed) <= Len(changes)
    /\ pc = "rename_files" => pos = Len(renamed) + 1
    /\ \A j \in DOMAIN renamed :
          \/ changes[j].new \in fs
          \/ \E m \in (j + 1)..Len(renamed) : changes[m].old = changes[j].new
    /\ (raised # None /\ raised[1] \in {"OSError", "FileNotFoundError"}) =>
          /\ pc = "exit"
          /\ pos = Len(renamed) + 1
          /\ pos <= Len(changes)

C8_Step ==
    /\ renamed' \in {renamed, Append(renamed, Len(renamed) + 1)}
    /\ (raised # None) => (renamed' = renamed /\ fs' = fs)

C8_RenamedIsPrefix == []C8_State /\ [][C8_Step]_vars

\* The second of three renames failed after the first had succeeded.
C8_Witness ==
    /\ raised = <<"OSError">>
    /\ Len(changes) = 3
    /\ renamed = <<1>>
    /\ changes[1].new \in fs
    /\ changes[1].old \notin fs
    /\ changes[3].old \in fs

\* C9: no two entries of a plan have the same new path, no entry's new path
\* is the path of a different file later in the plan, and a run that applied
\* its plan leaves as many files on disk as it found.
C9_NoCollision ==
    changes # <<>> =>
        /\ \A a, b \in DOMAIN changes :
              a < b => /\ changes[a].new # changes[b].new
                       /\ changes[a].new # changes[b].old
        /\ exit_code = <<0>> => Cardinality(fs) = Cardinality(fs0)

\* C10: every entry of the plan belongs to the season get_tv_season resolved:
\* the season number parsed from the file's name is that Season's number.
C10_SeasonOfPlan ==
    (changes # <<>> /\ tv_season # None) =>
        \A k \in DOMAIN changes : SeasonOf(changes[k].old) = tv_season[1].number
====
